---------------------------- MODULE Spec2Model ----------------------------
(***************************************************************************)
(* The standard glTF import pipeline of src/src/import/standard.rs:        *)
(* parse -> validate -> source_buffers -> source_images -> Gltf::new, and  *)
(* the shared futures (AsyncData) the produced Gltf hands to its callers.  *)
(*                                                                         *)
(* Indices of the document (bufferView, buffer) are 0-based as in the      *)
(* JSON; TLA+ sequences are 1-based, so descriptor i is seq[i + 1].        *)
(***************************************************************************)
EXTENDS Integers, Sequences, FiniteSets, TLC

(***************************************************************************)
(* Bounds of the model.                                                    *)
(***************************************************************************)
MaxBuffers == 2
MaxImages == 2
MaxOffset == 2
MaxLength == 3

(***************************************************************************)
(* Values.                                                                 *)
(***************************************************************************)
NoUri == "<no uri>"
NoMime == "<no mimeType>"
NoView == -1

Jpeg == "image/jpeg"
Png == "image/png"
Gif == "image/gif"

None == [kind |-> "None"]
Pending == [kind |-> "Pending"]
Poisoned == [kind |-> "Poisoned"]
Ok(v) == [kind |-> "Ok", value |-> v]
Err(e) == [kind |-> "Err", error |-> e]

MalformedJson == [kind |-> "MalformedJson"]
Validation(errs) == [kind |-> "Validation", errs |-> errs]
FetchFailure(uri) == [kind |-> "FetchFailure", uri |-> uri]
Decode == [kind |-> "Decode"]
LazyLoading(e) == [kind |-> "LazyLoading", cause |-> e]

(***************************************************************************)
(* The SourceFetcher's store and the codec, both collaborators the         *)
(* pipeline only calls.  A payload is a sequence of byte tokens: "J" is    *)
(* the JPEG signature, "P" the PNG signature, anything else is no image    *)
(* signature.                                                              *)
(***************************************************************************)
BufferUri(i) ==
    CASE i = 0 -> "a.bin"
      [] i = 1 -> "b.bin"
      [] OTHER -> "c.bin"

ImageUri == "i.png"

Content(uri) ==
    CASE uri = "a.bin" -> <<"J", "P", "x">>
      [] uri = "b.bin" -> <<"P", "J">>
      [] uri = "c.bin" -> <<"x", "J", "P", "y">>
      [] OTHER -> <<"P", "y">>

Signature(format) == IF format = "JPEG" THEN "J" ELSE "P"

\* the decoded pixel data: a sequence, as every payload of a future is
raw_pixels(bytes) == <<"pixels">> \o Tail(bytes)

\* image_crate::load_from_memory_with_format: decodes bytes of the given format
load_from_memory_with_format(bytes, format) ==
    IF bytes # <<>> /\ Head(bytes) = Signature(format)
    THEN Ok(raw_pixels(bytes))
    ELSE Err(Decode)

\* image_crate::load_from_memory: guesses the format from the signature
load_from_memory(bytes) ==
    IF bytes # <<>> /\ Head(bytes) \in {"J", "P"}
    THEN Ok(raw_pixels(bytes))
    ELSE Err(Decode)

(***************************************************************************)
(* Documents (json::Root): buffers, bufferViews and images.                *)
(***************************************************************************)
Buffer(uri) == [uri |-> uri]
View(b, o, n) == [buffer |-> b, byte_offset |-> o, byte_length |-> n]
Image(uri, bv, mime) == [uri |-> uri, buffer_view |-> bv, mime_type |-> mime]
Root(bs, vs, is) == [buffers |-> bs, buffer_views |-> vs, images |-> is]

RECURSIVE SeqsUpTo(_, _)
SeqsUpTo(S, n) ==
    IF n = 0 THEN {<<>>}
    ELSE LET shorter == SeqsUpTo(S, n - 1)
         IN  shorter \cup {Append(q, x) : q \in shorter, x \in S}

\* An image descriptor together with the bufferView it points to, if any.
\* ref: "none" (no bufferView field), "view" (points to its own bufferView)
\* or "dangling" (points past the end of bufferViews).
Shape(uri, mime, ref, b, o, n) ==
    [uri |-> uri, mime |-> mime, ref |-> ref, view |-> View(b, o, n)]

ViewsOf(shapes) ==
    LET withView == SelectSeq(shapes, LAMBDA s : s.ref = "view")
    IN  [k \in 1..Len(withView) |-> withView[k].view]

ViewIndex(shapes, i) ==
    Len(SelectSeq(SubSeq(shapes, 1, i - 1), LAMBDA s : s.ref = "view"))

BuildRoot(bs, shapes) ==
    Root(bs,
         ViewsOf(shapes),
         [i \in 1..Len(shapes) |->
            Image(shapes[i].uri,
                  CASE shapes[i].ref = "view" -> ViewIndex(shapes, i)
                    [] shapes[i].ref = "dangling" -> Len(ViewsOf(shapes))
                    [] OTHER -> NoView,
                  shapes[i].mime)])

(***************************************************************************)
(* validation::Validate.  A reported error is a (path, kind) pair; the     *)
(* checks run in document order and every failing check is reported.       *)
(***************************************************************************)
Path(section, index, field) ==
    [section |-> section, index |-> index, field |-> field]

Report(path, kind) == [path |-> path, kind |-> kind]

ViewReports(json, k) ==
    LET view == json.buffer_views[k]
    IN  IF view.buffer >= Len(json.buffers)
        THEN <<Report(Path("bufferViews", k - 1, "buffer"), "IndexOutOfBounds")>>
        ELSE <<>>

ImageReportsMinimal(json, i) ==
    LET entry == json.images[i]
    IN  (IF entry.buffer_view # NoView
            /\ entry.buffer_view >= Len(json.buffer_views)
         THEN <<Report(Path("images", i - 1, "bufferView"), "IndexOutOfBounds")>>
         ELSE <<>>)
        \o
        (IF entry.uri = NoUri /\ entry.buffer_view = NoView
         THEN <<Report(Path("images", i - 1, "uri"), "Missing")>>
         ELSE <<>>)
        \o
        (IF entry.uri # NoUri /\ entry.buffer_view # NoView
         THEN <<Report(Path("images", i - 1, "uri"), "Invalid")>>
         ELSE <<>>)

ImageReportsComplete(json, i) ==
    LET entry == json.images[i]
    IN  ImageReportsMinimal(json, i)
        \o
        (IF entry.mime_type \notin {NoMime, Jpeg, Png}
         THEN <<Report(Path("images", i - 1, "mimeType"), "Invalid")>>
         ELSE <<>>)

RECURSIVE ViewReportsFrom(_, _)
ViewReportsFrom(json, k) ==
    IF k > Len(json.buffer_views) THEN <<>>
    ELSE ViewReports(json, k) \o ViewReportsFrom(json, k + 1)

RECURSIVE ImageReportsMinimalFrom(_, _)
ImageReportsMinimalFrom(json, i) ==
    IF i > Len(json.images) THEN <<>>
    ELSE ImageReportsMinimal(json, i) \o ImageReportsMinimalFrom(json, i + 1)

RECURSIVE ImageReportsCompleteFrom(_, _)
ImageReportsCompleteFrom(json, i) ==
    IF i > Len(json.images) THEN <<>>
    ELSE ImageReportsComplete(json, i) \o ImageReportsCompleteFrom(json, i + 1)

validate_minimally(json) ==
    ViewReportsFrom(json, 1) \o ImageReportsMinimalFrom(json, 1)

validate_completely(json) ==
    ViewReportsFrom(json, 1) \o ImageReportsCompleteFrom(json, 1)

(***************************************************************************)
(* fn validate: the outcome of the future it returns, and the validation   *)
(* routines it ran.                                                        *)
(***************************************************************************)
\* mutant: Skip runs the minimal checks
ValidateSkip_Checks(json) ==
    LET errs == validate_minimally(json)
    IN  [result |-> IF errs = <<>> THEN Ok(json) ELSE Err(Validation(errs)),
         ran |-> <<"validate_minimally">>]

ValidateSkip(json) ==
    [result |-> Ok(json), ran |-> <<>>]

\* mutant: the reports are collected and then ignored
ValidateMinimal_IgnoresReports(json) ==
    [result |-> Ok(json), ran |-> <<"validate_minimally">>]

ValidateMinimal(json) ==
    LET errs == validate_minimally(json)
    IN  [result |-> IF errs = <<>> THEN Ok(json) ELSE Err(Validation(errs)),
         ran |-> <<"validate_minimally">>]

\* mutant: the first report ends the validation
ValidateComplete_FirstOnly(json) ==
    LET errs == validate_completely(json)
    IN  [result |-> IF errs = <<>> THEN Ok(json)
                    ELSE Err(Validation(<<Head(errs)>>)),
         ran |-> <<"validate_completely">>]

ValidateComplete(json) ==
    LET errs == validate_completely(json)
    IN  [result |-> IF errs = <<>> THEN Ok(json) ELSE Err(Validation(errs)),
         ran |-> <<"validate_completely">>]

validate(json, validation_strategy) ==
    CASE validation_strategy = "Skip" -> ValidateSkip(json)
      [] validation_strategy = "Minimal" -> ValidateMinimal(json)
      [] validation_strategy = "Complete" -> ValidateComplete(json)

(***************************************************************************)
(* fn source_buffers: one source_external_data call per buffer entry, in   *)
(* order; entry.uri.as_ref().unwrap() panics on the first entry without a  *)
(* URI, after the calls of the entries before it.                          *)
(***************************************************************************)
FirstWithout(bs) ==
    IF \E i \in 1..Len(bs) : bs[i].uri = NoUri
    THEN CHOOSE i \in 1..Len(bs) :
            /\ bs[i].uri = NoUri
            /\ \A j \in 1..(i - 1) : bs[j].uri # NoUri
    ELSE Len(bs) + 1

\* the AsyncData of buffer entry i: a shared future over call number `call`
BufferData(call) == [call |-> call]

\* mutant: the vector is collected in reverse
source_buffers_Reversed(json, calls) ==
    LET stop == FirstWithout(json.buffers)
        done == stop - 1
    IN  [panicked |-> stop <= Len(json.buffers),
         calls |-> calls \o [i \in 1..done |-> json.buffers[i].uri],
         buffers |-> [i \in 1..done |-> BufferData(Len(calls) + done + 1 - i)]]

source_buffers(json, calls) ==
    LET stop == FirstWithout(json.buffers)
        done == stop - 1
    IN  [panicked |-> stop <= Len(json.buffers),
         calls |-> calls \o [i \in 1..done |-> json.buffers[i].uri],
         buffers |-> [i \in 1..done |-> BufferData(Len(calls) + i)]]

(***************************************************************************)
(* fn source_images.  Each entry is resolved in order; a panic of an entry *)
(* (unreachable!(), an index out of bounds) ends the function after the    *)
(* calls of the entries before it.                                         *)
(***************************************************************************)
NoFormat == "<no format>"

\* mutant: an unknown mime type is taken for no mime type
FormatPanics_Never(entry) == FALSE

\* entry.mime_type.as_ref().map(..): the codec's format, or a panic
FormatPanics(entry) == entry.mime_type \notin {NoMime, Jpeg, Png}

Format(entry) ==
    CASE entry.mime_type = Jpeg -> "JPEG"
      [] entry.mime_type = Png -> "PNG"
      [] OTHER -> NoFormat

\* mutant: the bufferView is looked at first, the URI second
TypeOf_ViewFirst(json, entry) ==
    IF entry.buffer_view # NoView
    THEN IF entry.buffer_view < Len(json.buffer_views)
         THEN "Borrowed"
         ELSE "panic"
    ELSE IF entry.uri # NoUri THEN "Owned" ELSE "panic"

\* the enum Type chosen for an entry: "Owned", "Borrowed", or a panic
TypeOf(json, entry) ==
    IF entry.uri # NoUri THEN "Owned"
    ELSE IF entry.buffer_view # NoView
         THEN IF entry.buffer_view < Len(json.buffer_views)
              THEN "Borrowed"
              ELSE "panic"
         ELSE "panic"

BufferViewOf(json, entry) == json.buffer_views[entry.buffer_view + 1]

\* the shared future built for an Owned entry: fetch `call`, then decode
OwnedData(call, format) ==
    [ty |-> "Owned", call |-> call, format |-> format,
     buffer_index |-> 0, offset |-> 0, len |-> 0]

\* the shared future built for a Borrowed entry: attach to the buffer,
\* then slice and decode; it makes no call of its own
BorrowedData(buffer_index, offset, len, format) ==
    [ty |-> "Borrowed", call |-> 0, format |-> format,
     buffer_index |-> buffer_index, offset |-> offset, len |-> len]

\* mutant: an embedded image fetches its buffer's URI itself
ImageStep_Refetches(json, buffers, entry, acc) ==
    IF acc.panicked THEN acc
    ELSE IF FormatPanics(entry) \/ TypeOf(json, entry) = "panic"
    THEN [acc EXCEPT !.panicked = TRUE]
    ELSE IF TypeOf(json, entry) = "Owned"
    THEN [acc EXCEPT
            !.calls = Append(@, entry.uri),
            !.images = Append(@, OwnedData(Len(acc.calls) + 1, Format(entry)))]
    ELSE LET buffer_view == BufferViewOf(json, entry)
         IN  IF buffer_view.buffer >= Len(buffers)
             THEN [acc EXCEPT !.panicked = TRUE]
             ELSE [acc EXCEPT
                     !.calls = Append(@, json.buffers[buffer_view.buffer + 1].uri),
                     !.images = Append(@, BorrowedData(buffer_view.buffer,
                                                       buffer_view.byte_offset,
                                                       buffer_view.byte_length,
                                                       Format(entry)))]

\* one iteration of the loop; acc = [panicked, calls, images]
ImageStep(json, buffers, entry, acc) ==
    IF acc.panicked THEN acc
    ELSE IF FormatPanics(entry) \/ TypeOf(json, entry) = "panic"
    THEN [acc EXCEPT !.panicked = TRUE]
    ELSE IF TypeOf(json, entry) = "Owned"
    THEN [acc EXCEPT
            !.calls = Append(@, entry.uri),
            !.images = Append(@, OwnedData(Len(acc.calls) + 1, Format(entry)))]
    ELSE LET buffer_view == BufferViewOf(json, entry)
         IN  IF buffer_view.buffer >= Len(buffers)
             THEN [acc EXCEPT !.panicked = TRUE]
             ELSE [acc EXCEPT
                     !.images = Append(@, BorrowedData(buffer_view.buffer,
                                                       buffer_view.byte_offset,
                                                       buffer_view.byte_length,
                                                       Format(entry)))]

RECURSIVE ImageLoop(_, _, _, _)
ImageLoop(json, buffers, i, acc) ==
    IF i > Len(json.images) THEN acc
    ELSE ImageLoop(json, buffers, i + 1,
                   ImageStep(json, buffers, json.images[i], acc))

source_images(json, buffers, calls) ==
    ImageLoop(json, buffers, 1,
              [panicked |-> FALSE, calls |-> calls, images |-> <<>>])

(***************************************************************************)
(* Polling.  A Shared future polls its inner future while it is pending    *)
(* and keeps the first settled result for every clone.  `answer` is what   *)
(* the SourceFetcher's future answers when the poll reaches it.            *)
(***************************************************************************)
Answers == {"NotReady", "Ok", "Err"}

\* the future source_external_data(uri) returned, polled
PollFetch(uri, answer) ==
    CASE answer = "Ok" -> Ok(Content(uri))
      [] answer = "Err" -> Err(FetchFailure(uri))
      [] OTHER -> Pending

\* mutant: no memo, every poll polls the inner future again
SharedPoll_Repolls(state, inner) == inner

\* Shared::poll: the stored result if there is one, else the inner future's
SharedPoll(state, inner) == IF state # Pending THEN state ELSE inner

\* &data[offset..(offset + len)]
InRange(data, offset, len) == offset + len <= Len(data)
\* mutant: the length is taken for the end of the range
Slice_LenAsEnd(data, offset, len) ==
    IF offset + 1 > len THEN <<>> ELSE SubSeq(data, offset + 1, len)

Slice(data, offset, len) == SubSeq(data, offset + 1, offset + len)

\* the decoder call an image future makes on `data`, if it makes one
DecoderInput(image, data) ==
    IF image.ty = "Owned"
    THEN <<[bytes |-> data, format |-> image.format]>>
    ELSE IF InRange(data, image.offset, image.len) /\ image.format # NoFormat
         THEN <<[bytes |-> Slice(data, image.offset, image.len),
                 format |-> image.format]>>
         ELSE <<>>

\* the and_then closure of an Owned image
DecodeOwned(image, data) ==
    IF image.format # NoFormat
    THEN load_from_memory_with_format(data, image.format)
    ELSE load_from_memory(data)

\* mutant: a range that leaves the buffer is cut at the buffer's end
DecodeBorrowed_Truncates(image, data) ==
    IF image.format = NoFormat THEN Poisoned
    ELSE IF InRange(data, image.offset, image.len)
    THEN load_from_memory_with_format(Slice(data, image.offset, image.len),
                                      image.format)
    ELSE load_from_memory_with_format(SubSeq(data, image.offset + 1, Len(data)),
                                      image.format)

\* the and_then closure of a Borrowed image: the slice panics when the range
\* leaves the buffer, format.unwrap() panics without a mime type
DecodeBorrowed(image, data) ==
    IF ~InRange(data, image.offset, image.len) \/ image.format = NoFormat
    THEN Poisoned
    ELSE load_from_memory_with_format(Slice(data, image.offset, image.len),
                                      image.format)

\* mutant: the fetch's error of an Owned image is wrapped as a buffer's is
OwnedInner_Wraps(image, upstream) ==
    CASE upstream.kind = "Ok" -> DecodeOwned(image, upstream.value)
      [] upstream.kind = "Err" -> Err(LazyLoading(upstream.error))
      [] OTHER -> upstream

\* the inner future of an image, polled; `upstream` is what its first future
\* (the fetch of an Owned image, the buffer of a Borrowed one) answers
OwnedInner(image, upstream) ==
    CASE upstream.kind = "Ok" -> DecodeOwned(image, upstream.value)
      [] OTHER -> upstream

\* mutant: without map_err the buffer's error is passed on as it is
BorrowedInner_NoMapErr(image, upstream) ==
    CASE upstream.kind = "Ok" -> DecodeBorrowed(image, upstream.value)
      [] OTHER -> upstream

BorrowedInner(image, upstream) ==
    CASE upstream.kind = "Ok" -> DecodeBorrowed(image, upstream.value)
      [] upstream.kind = "Err" -> Err(LazyLoading(upstream.error))
      [] OTHER -> upstream

(***************************************************************************)
(* The inputs of one import.                                               *)
(***************************************************************************)
Consumers == {"c1", "c2"}

Strategies == {"Skip", "Minimal", "Complete"}

\* every buffer has a URI, or all but the last one do
BufferLists ==
    {[i \in 1..n |-> "uri"] : n \in 0..MaxBuffers}
    \cup {[i \in 1..n |-> IF i < n THEN "uri" ELSE "none"] : n \in 1..MaxBuffers}

BuffersOf(marks) ==
    [i \in 1..Len(marks) |->
        Buffer(IF marks[i] = "uri" THEN BufferUri(i - 1) ELSE NoUri)]

\* descriptors every strategy accepts and every stage resolves: an external
\* image without a mime type, one with a mime type, and an embedded image
\* at the head of each buffer
SoundShapes ==
    {Shape(BufferUri(0), NoMime, "none", 0, 0, 0),
     Shape(ImageUri, Jpeg, "none", 0, 0, 0)}
    \cup {Shape(NoUri, Jpeg, "view", b, 0, 1) : b \in 0..(MaxBuffers - 1)}

\* descriptors outside the schema's invariants
BrokenShapes ==
    {Shape(ImageUri, Gif, "none", 0, 0, 0),
     Shape(NoUri, Jpeg, "none", 0, 0, 0),
     Shape(ImageUri, Jpeg, "view", 0, 0, 1),
     Shape(NoUri, Jpeg, "dangling", 0, 0, 0),
     Shape(NoUri, Jpeg, "view", MaxBuffers, 0, 1)}

Shapes == SoundShapes \cup BrokenShapes

Documents ==
    {BuildRoot(BuffersOf(marks), shapes) :
        marks \in BufferLists, shapes \in SeqsUpTo(Shapes, MaxImages)}

\* the input bytes: the serialization of a document, whole, or (for the
\* documents of at most one image) cut short
Inputs ==
    [text : Documents, cut : {FALSE}]
    \cup [text : {d \in Documents : Len(d.images) <= 1}, cut : {TRUE}]

\* documents of one embedded image, over every byte range within the bounds
\* and every mime type
ViewShapes ==
    {Shape(NoUri, mime, "view", b, o, n) :
        mime \in {Jpeg, Png, NoMime},
        b \in 0..(MaxBuffers - 1), o \in 0..MaxOffset, n \in 0..MaxLength}

ViewDocuments ==
    {BuildRoot([i \in 1..MaxBuffers |-> Buffer(BufferUri(i - 1))], <<shape>>) :
        shape \in ViewShapes}

ViewInputs == [text : ViewDocuments, cut : BOOLEAN]

\* documents of two embedded images of one byte each, over every buffer,
\* the first two offsets and both formats: images that share a buffer, or
\* do not, and decode or fail to, independently
SiblingShapes ==
    {Shape(NoUri, mime, "view", b, o, 1) :
        mime \in {Jpeg, Png}, b \in 0..(MaxBuffers - 1), o \in 0..1}

SiblingDocuments ==
    {BuildRoot([i \in 1..MaxBuffers |-> Buffer(BufferUri(i - 1))], <<s1, s2>>) :
        s1 \in SiblingShapes, s2 \in SiblingShapes}

SiblingInputs == [text : SiblingDocuments, cut : {FALSE}]

\* documents for the awaiting of resources to its end: an external image,
\* embedded images at the head of the first and of the last buffer, and an
\* embedded image whose range leaves its buffer
LiveShapes ==
    {Shape(ImageUri, Jpeg, "none", 0, 0, 0),
     Shape(NoUri, Jpeg, "view", 0, 0, 1),
     Shape(NoUri, Jpeg, "view", MaxBuffers - 1, 0, 1),
     Shape(NoUri, Jpeg, "view", 0, MaxOffset, MaxLength)}

LiveDocuments ==
    {BuildRoot([i \in 1..MaxBuffers |-> Buffer(BufferUri(i - 1))], shapes) :
        shapes \in SeqsUpTo(LiveShapes, MaxImages)}

LiveInputs == [text : LiveDocuments, cut : {FALSE}]

\* documents for the awaiting of external images: an external image whose
\* bytes decode, one whose bytes do not, an image with a URI and a
\* bufferView, and an embedded image, over zero to MaxBuffers buffers
AwaitShapes ==
    {Shape(BufferUri(0), NoMime, "none", 0, 0, 0),
     Shape(ImageUri, Jpeg, "none", 0, 0, 0),
     Shape(ImageUri, Jpeg, "view", 0, 0, 1),
     Shape(NoUri, Jpeg, "view", 0, 0, 1)}

AwaitDocuments ==
    {BuildRoot([i \in 1..n |-> Buffer(BufferUri(i - 1))], shapes) :
        n \in 0..MaxBuffers, shapes \in SeqsUpTo(AwaitShapes, MaxImages)}

AwaitInputs == [text : AwaitDocuments, cut : {FALSE}]

\* json::from_reader
from_reader(bytes) ==
    IF bytes.cut THEN Err(MalformedJson) ELSE Ok(bytes.text)

(***************************************************************************)
(* State.                                                                  *)
(***************************************************************************)
VARIABLES
    data,       \* the bytes given to import
    config,     \* the validation strategy given to import
    pc,         \* the stage the import future is at
    json,       \* the document passed from stage to stage
    ran,        \* the validation routines run so far
    calls,      \* the source_external_data calls made so far, by URI
    buffers,    \* Vec<AsyncData> of source_buffers
    images,     \* Vec<AsyncData> of source_images
    result,     \* what the import future resolved to
    bufState,   \* the state of each buffer's shared future
    imgState,   \* the state of each image's shared future
    decoded,    \* the decoder calls of each image future
    consumers   \* what each consumer of the Gltf awaits and has seen

vars == <<data, config, pc, json, ran, calls, buffers, images, result,
          bufState, imgState, decoded, consumers>>

\* a consumer: the handle it holds, what its last poll returned (Pending:
\* not ready yet) and whether a poll of its handle ever found it not ready
Idle == [on |-> "none", index |-> 0, seen |-> None, waited |-> FALSE]
Awaiting(on, index, seen, waited) ==
    [on |-> on, index |-> index, seen |-> seen, waited |-> waited]

InitWith(inputs, strategies) ==
    /\ data \in inputs
    /\ config \in strategies
    /\ pc = "parse"
    /\ json = None
    /\ ran = <<>>
    /\ calls = <<>>
    /\ buffers = <<>>
    /\ images = <<>>
    /\ result = None
    /\ bufState = <<>>
    /\ imgState = <<>>
    /\ decoded = <<>>
    /\ consumers = [c \in Consumers |-> Idle]

(***************************************************************************)
(* fn import: the five stages of the future it returns.                    *)
(***************************************************************************)
Gltf(root, bs, is) == [root |-> root, buffers |-> bs, images |-> is]

\* mutant: a parse error is dropped and the pipeline goes on
Parse_Lenient ==
    /\ pc = "parse"
    /\ json' = data.text
    /\ pc' = "validate"
    /\ UNCHANGED <<data, config, ran, calls, buffers, images, result,
                   bufState, imgState, decoded, consumers>>

Parse ==
    /\ pc = "parse"
    /\ LET parsed == from_reader(data)
       IN  IF parsed.kind = "Ok"
           THEN /\ json' = parsed.value
                /\ pc' = "validate"
                /\ result' = result
           ELSE /\ json' = json
                /\ pc' = "failed"
                /\ result' = parsed
    /\ UNCHANGED <<data, config, ran, calls, buffers, images,
                   bufState, imgState, decoded, consumers>>

Validate ==
    /\ pc = "validate"
    /\ LET validated == validate(json, config)
       IN  /\ ran' = ran \o validated.ran
           /\ IF validated.result.kind = "Ok"
              THEN /\ json' = validated.result.value
                   /\ pc' = "buffers"
                   /\ result' = result
              ELSE /\ json' = json
                   /\ pc' = "failed"
                   /\ result' = validated.result
    /\ UNCHANGED <<data, config, calls, buffers, images,
                   bufState, imgState, decoded, consumers>>

SourceBuffers ==
    /\ pc = "buffers"
    /\ LET built == source_buffers(json, calls)
       IN  /\ calls' = built.calls
           /\ IF built.panicked
              THEN /\ pc' = "panicked"
                   /\ UNCHANGED <<buffers, bufState>>
              ELSE /\ pc' = "images"
                   /\ buffers' = built.buffers
                   /\ bufState' = [i \in 1..Len(built.buffers) |-> Pending]
    /\ UNCHANGED <<data, config, json, ran, images, result,
                   imgState, decoded, consumers>>

SourceImages ==
    /\ pc = "images"
    /\ LET built == source_images(json, buffers, calls)
       IN  /\ calls' = built.calls
           /\ IF built.panicked
              THEN /\ pc' = "panicked"
                   /\ UNCHANGED <<images, imgState, decoded>>
              ELSE /\ pc' = "assemble"
                   /\ images' = built.images
                   /\ imgState' = [i \in 1..Len(built.images) |-> Pending]
                   /\ decoded' = [i \in 1..Len(built.images) |-> <<>>]
    /\ UNCHANGED <<data, config, json, ran, buffers, result,
                   bufState, consumers>>

Assemble ==
    /\ pc = "assemble"
    /\ result' = Ok(Gltf(json, buffers, images))
    /\ pc' = "done"
    /\ UNCHANGED <<data, config, json, ran, calls, buffers, images,
                   bufState, imgState, decoded, consumers>>

(***************************************************************************)
(* The consumers of the Gltf: each takes a handle of one buffer or image   *)
(* and polls it until it is ready.                                         *)
(***************************************************************************)
MayPoll(c, on, index) ==
    \/ consumers[c] = Idle
    \/ consumers[c] = Awaiting(on, index, Pending, TRUE)

\* consumer c after its poll of that handle returned `polled`
Polled(c, on, index, polled) ==
    Awaiting(on, index, polled, consumers[c].waited \/ polled = Pending)

\* buffer i's shared future, polled
PollBuffer(i, answer) ==
    SharedPoll(bufState[i], PollFetch(calls[buffers[i].call], answer))

\* mutant: an embedded image waits on its own shared future
Upstream_Self(j, answer) ==
    IF images[j].ty = "Owned"
    THEN PollFetch(calls[images[j].call], answer)
    ELSE imgState[j]

\* what image j's inner future awaits first, polled
Upstream(j, answer) ==
    IF images[j].ty = "Owned"
    THEN PollFetch(calls[images[j].call], answer)
    ELSE PollBuffer(images[j].buffer_index + 1, answer)

\* image j's shared future, polled
PollImage(j, answer) ==
    SharedPoll(imgState[j],
               IF images[j].ty = "Owned"
               THEN OwnedInner(images[j], Upstream(j, answer))
               ELSE BorrowedInner(images[j], Upstream(j, answer)))

\* mutant: the closure runs on the first poll, on whatever the source holds
DecodedBy_BeforeFetch(j, answer) ==
    IF imgState[j] = Pending
    THEN decoded[j] \o DecoderInput(images[j],
                          Content(IF images[j].ty = "Owned"
                                  THEN calls[images[j].call]
                                  ELSE calls[buffers[images[j].buffer_index + 1].call]))
    ELSE decoded[j]

\* the decoder calls of image j after that poll
DecodedBy(j, answer) ==
    IF imgState[j] = Pending /\ Upstream(j, answer).kind = "Ok"
    THEN decoded[j] \o DecoderInput(images[j], Upstream(j, answer).value)
    ELSE decoded[j]

\* mutant: an image's decode error is stored in its buffer's future too
BuffersAfter_DecodeErrorSpreads(j, answer) ==
    IF imgState[j] = Pending /\ images[j].ty = "Borrowed"
    THEN [bufState EXCEPT
            ![images[j].buffer_index + 1] =
                IF PollImage(j, answer) = Err(Decode)
                THEN Err(Decode)
                ELSE Upstream(j, answer)]
    ELSE bufState

\* the buffers' shared futures after image j was polled
BuffersAfter(j, answer) ==
    IF imgState[j] = Pending /\ images[j].ty = "Borrowed"
    THEN [bufState EXCEPT ![images[j].buffer_index + 1] = Upstream(j, answer)]
    ELSE bufState

\* mutant: a failed buffer fails the import as a whole
AwaitBuffer_FailsImport(c, i, answer) ==
    /\ pc = "done"
    /\ i \in 1..Len(buffers)
    /\ MayPoll(c, "buffer", i)
    /\ bufState' = [bufState EXCEPT ![i] = PollBuffer(i, answer)]
    /\ consumers' = [consumers EXCEPT
                        ![c] = Polled(c, "buffer", i, PollBuffer(i, answer))]
    /\ result' = IF PollBuffer(i, answer).kind = "Err"
                 THEN PollBuffer(i, answer)
                 ELSE result
    /\ UNCHANGED <<data, config, pc, json, ran, calls, buffers, images,
                   imgState, decoded>>

AwaitBuffer(c, i, answer) ==
    /\ pc = "done"
    /\ i \in 1..Len(buffers)
    /\ MayPoll(c, "buffer", i)
    /\ bufState' = [bufState EXCEPT ![i] = PollBuffer(i, answer)]
    /\ consumers' = [consumers EXCEPT
                        ![c] = Polled(c, "buffer", i, PollBuffer(i, answer))]
    /\ UNCHANGED <<data, config, pc, json, ran, calls, buffers, images,
                   result, imgState, decoded>>

\* mutant: an image that fails asks the source again
AwaitImage_Retries(c, j, answer) ==
    /\ pc = "done"
    /\ j \in 1..Len(images)
    /\ MayPoll(c, "image", j)
    /\ imgState' = [imgState EXCEPT ![j] = PollImage(j, answer)]
    /\ bufState' = BuffersAfter(j, answer)
    /\ decoded' = [decoded EXCEPT ![j] = DecodedBy(j, answer)]
    /\ consumers' = [consumers EXCEPT
                        ![c] = Polled(c, "image", j, PollImage(j, answer))]
    /\ calls' = IF imgState[j] = Pending /\ PollImage(j, answer).kind = "Err"
                THEN Append(calls,
                            IF images[j].ty = "Owned"
                            THEN calls[images[j].call]
                            ELSE calls[buffers[images[j].buffer_index + 1].call])
                ELSE calls
    /\ UNCHANGED <<data, config, pc, json, ran, buffers, images, result>>

AwaitImage(c, j, answer) ==
    /\ pc = "done"
    /\ j \in 1..Len(images)
    /\ MayPoll(c, "image", j)
    /\ imgState' = [imgState EXCEPT ![j] = PollImage(j, answer)]
    /\ bufState' = BuffersAfter(j, answer)
    /\ decoded' = [decoded EXCEPT ![j] = DecodedBy(j, answer)]
    /\ consumers' = [consumers EXCEPT
                        ![c] = Polled(c, "image", j, PollImage(j, answer))]
    /\ UNCHANGED <<data, config, pc, json, ran, calls, buffers, images,
                   result>>

Next ==
    \/ Parse
    \/ Validate
    \/ SourceBuffers
    \/ SourceImages
    \/ Assemble
    \/ \E c \in Consumers, i \in 1..MaxBuffers, answer \in Answers :
          AwaitBuffer(c, i, answer)
    \/ \E c \in Consumers, j \in 1..MaxImages, answer \in Answers :
          AwaitImage(c, j, answer)

Init == InitWith(Inputs, Strategies)

Spec == Init /\ [][Next]_vars

\* the import future alone, run to its end: the five stages, no consumer
Stages ==
    \/ Parse
    \/ Validate
    \/ SourceBuffers
    \/ SourceImages
    \/ Assemble

SpecImport == Init /\ [][Stages]_vars

\* the imports of the documents of AwaitDocuments
AwaitInit == InitWith(AwaitInputs, Strategies)

SpecAwait == AwaitInit /\ [][Next]_vars

\* the imports of the documents of ViewDocuments
ViewInit == InitWith(ViewInputs, Strategies)

SpecView == ViewInit /\ [][Next]_vars

\* the imports of the documents of SiblingDocuments
SiblingInit == InitWith(SiblingInputs, Strategies)

SpecSibling == SiblingInit /\ [][Next]_vars

\* the imports of the documents of LiveDocuments, with consumers that are
\* polled again until their resource is ready and a SourceFetcher that
\* settles every call: a consumer that awaits a resource is eventually
\* polled with the fetch under it settled
Settle(c) ==
    \E answer \in {"Ok", "Err"} :
        \/ \E i \in 1..MaxBuffers :
              /\ consumers[c].on = "buffer"
              /\ consumers[c].index = i
              /\ AwaitBuffer(c, i, answer)
        \/ \E j \in 1..MaxImages :
              /\ consumers[c].on = "image"
              /\ consumers[c].index = j
              /\ AwaitImage(c, j, answer)

LiveInit == InitWith(LiveInputs, {"Complete"})

SpecLive ==
    /\ LiveInit
    /\ [][Next]_vars
    /\ \A c \in Consumers : WF_vars(Settle(c))

(***************************************************************************)
(* Vocabulary of the properties.                                           *)
(***************************************************************************)
Count(S) == Cardinality(S)

\* the number of SourceFetcher calls made with `uri`
CallsWith(uri) == Count({k \in 1..Len(calls) : calls[k] = uri})

\* the descriptors of document `doc` that carry `uri`
BuffersCarrying(doc, uri) ==
    {i \in 1..Len(doc.buffers) : doc.buffers[i].uri = uri}
ImagesCarrying(doc, uri) ==
    {j \in 1..Len(doc.images) : doc.images[j].uri = uri}

\* the import produced a Gltf
Delivered == result.kind = "Ok"

\* stage 4 is over: both resource vectors exist
Resolved == pc \in {"assemble", "done"}

\* the embedded images whose bufferView points to buffer b (1-based)
EmbeddedOn(b) ==
    {j \in 1..Len(images) :
        images[j].ty = "Borrowed" /\ images[j].buffer_index = b - 1}

Settled(state) == state # Pending

\* the consumers whose await of image j has returned
SeenImage(j) ==
    {c \in Consumers : /\ consumers[c].on = "image"
                       /\ consumers[c].index = j
                       /\ Settled(consumers[c].seen)}

C2_OneFetchPerUri ==
    \A k1, k2 \in 1..Len(calls) : calls[k1] = calls[k2] => k1 = k2

(***************************************************************************)
(* C3: once the fetch of buffer b has failed with error e, every embedded  *)
(* image of b that has resolved has resolved to LazyLoading(e) and its     *)
(* decoder was never invoked, and every consumer of such an image was      *)
(* handed that error; the failure reaches nothing else: a buffer fails     *)
(* only with the failure of its own fetch, an image fails with LazyLoading *)
(* only when it is embedded in a buffer that failed, and an external image *)
(* fails only with its own fetch's failure or a decode error.              *)
(***************************************************************************)
C3_FailureIsolation ==
    Resolved =>
        /\ \A b \in 1..Len(buffers) :
              bufState[b].kind = "Err" =>
                 /\ bufState[b].error = FetchFailure(json.buffers[b].uri)
                 /\ \A j \in EmbeddedOn(b) :
                       /\ decoded[j] = <<>>
                       /\ Settled(imgState[j]) =>
                             imgState[j] = Err(LazyLoading(bufState[b].error))
                       /\ \A c \in SeenImage(j) :
                             consumers[c].seen
                                = Err(LazyLoading(bufState[b].error))
        /\ \A j \in 1..Len(images) :
              imgState[j].kind = "Err" =>
                 IF json.images[j].uri # NoUri
                 THEN imgState[j].error
                         \in {Decode, FetchFailure(json.images[j].uri)}
                 ELSE \/ imgState[j].error = Decode
                      \/ \E b \in 1..Len(buffers) :
                            /\ j \in EmbeddedOn(b)
                            /\ bufState[b].kind = "Err"
                            /\ imgState[j].error
                                  = LazyLoading(bufState[b].error)

\* buffer b failed, an image embedded in it resolved to the dependency
\* failure, and an image that does not depend on b resolved to pixels
C3_Witness ==
    /\ pc = "done"
    /\ \E b \in 1..Len(buffers) :
          /\ bufState[b].kind = "Err"
          /\ \E j \in EmbeddedOn(b) :
                /\ SeenImage(j) # {}
                /\ imgState[j] = Err(LazyLoading(bufState[b].error))
          /\ \E j \in (1..Len(images)) \ EmbeddedOn(b) :
                /\ SeenImage(j) # {}
                /\ imgState[j].kind = "Ok"

(***************************************************************************)
(* C4: when import resolves to a Gltf, a SourceFetcher call has been made  *)
(* for every buffer and every external image of the document, whatever the *)
(* state of the resources; and a resolved import result never changes      *)
(* afterwards, whatever the resources resolve to.                          *)
(***************************************************************************)
EveryCallMade ==
    /\ Len(calls) = Len(json.buffers)
          + Count({j \in 1..Len(json.images) : json.images[j].uri # NoUri})
    /\ \A i \in 1..Len(json.buffers) : CallsWith(json.buffers[i].uri) >= 1
    /\ \A j \in 1..Len(json.images) :
          json.images[j].uri # NoUri => CallsWith(json.images[j].uri) >= 1

C4_DeliveredBeforeResources ==
    [][/\ Delivered' => EveryCallMade'
       /\ Delivered => result' = result]_vars

\* the Gltf is delivered, calls were made, and no resource has settled
C4_Witness ==
    /\ Delivered
    /\ Len(buffers) >= 1
    /\ Len(images) >= 1
    /\ calls # <<>>
    /\ \A i \in 1..Len(buffers) : bufState[i] = Pending
    /\ \A j \in 1..Len(images) : imgState[j] = Pending

(***************************************************************************)
(* C5: when the input bytes do not parse, import fails with MalformedJson, *)
(* no validation routine runs, the SourceFetcher is never called and no    *)
(* Gltf is produced.                                                       *)
(***************************************************************************)
C5_FailFastOnParse ==
    from_reader(data).kind = "Err" =>
        /\ pc \in {"parse", "failed"}
        /\ pc = "failed" => result = Err(MalformedJson)
        /\ pc = "parse" => result = None
        /\ ran = <<>>
        /\ calls = <<>>
        /\ buffers = <<>> /\ images = <<>>

\* an import of bytes that do not parse has failed
C5_Witness ==
    /\ from_reader(data).kind = "Err"
    /\ pc = "failed"
    /\ result = Err(MalformedJson)

(***************************************************************************)
(* C6: under Minimal or Complete, when the validation routine reports at   *)
(* least one error, import fails with Validation carrying the reports,     *)
(* stages 3 to 5 never run, the SourceFetcher is never called and no Gltf  *)
(* is produced; and no SourceFetcher call is ever made before validation   *)
(* has ended successfully.                                                 *)
(***************************************************************************)
Reported(strategy, doc) ==
    CASE strategy = "Minimal" -> validate_minimally(doc)
      [] strategy = "Complete" -> validate_completely(doc)
      [] OTHER -> <<>>

C6_FailFastOnValidation ==
    /\ calls # <<>> => pc \in {"buffers", "images", "assemble", "done", "panicked"}
    /\ pc = "buffers" => calls = <<>>
    /\ (/\ from_reader(data).kind = "Ok"
        /\ Reported(config, from_reader(data).value) # <<>>
        /\ pc \notin {"parse", "validate"})
       => /\ pc = "failed"
          /\ result = Err(Validation(Reported(config, from_reader(data).value)))
          /\ calls = <<>>
          /\ buffers = <<>> /\ images = <<>>

\* an import has failed with a validation error
C6_Witness ==
    /\ pc = "failed"
    /\ config \in {"Minimal", "Complete"}
    /\ result.kind = "Err"
    /\ result.error.kind = "Validation"
    /\ result.error.errs # <<>>

(***************************************************************************)
(* C7 (documents of ViewDocuments): for an embedded image with a mime type *)
(* whose bufferView {buffer b, byteOffset o, byteLength n} lies within the *)
(* bytes D buffer b resolved to, once the image has resolved its decoder   *)
(* was called exactly once, with exactly the n bytes D[o], ..., D[o+n-1]   *)
(* in order; before that the decoder was not called.                       *)
(***************************************************************************)
ViewOfImage(j) == json.buffer_views[json.images[j].buffer_view + 1]

C7_SliceExactness ==
    Resolved =>
        \A j \in 1..Len(images) :
            (/\ json.images[j].uri = NoUri
             /\ json.images[j].mime_type \in {Jpeg, Png})
            => LET o == ViewOfImage(j).byte_offset
                   n == ViewOfImage(j).byte_length
                   b == ViewOfImage(j).buffer + 1
               IN  /\ ~Settled(imgState[j]) => decoded[j] = <<>>
                   /\ (/\ Settled(imgState[j])
                       /\ bufState[b].kind = "Ok"
                       /\ o + n <= Len(bufState[b].value))
                      => /\ Len(decoded[j]) = 1
                         /\ Len(decoded[j][1].bytes) = n
                         /\ \A k \in 1..n :
                               decoded[j][1].bytes[k] = bufState[b].value[o + k]

\* an image resolved whose range starts inside the buffer and ends at its end
C7_Witness ==
    /\ pc = "done"
    /\ \E j \in 1..Len(images) :
          /\ json.images[j].uri = NoUri
          /\ json.images[j].mime_type \in {Jpeg, Png}
          /\ Settled(imgState[j])
          /\ bufState[ViewOfImage(j).buffer + 1].kind = "Ok"
          /\ ViewOfImage(j).byte_offset >= 1
          /\ ViewOfImage(j).byte_length >= 2
          /\ ViewOfImage(j).byte_offset + ViewOfImage(j).byte_length
                = Len(bufState[ViewOfImage(j).buffer + 1].value)
          /\ Len(decoded[j]) = 1

(***************************************************************************)
(* C8: every consumer whose await of a buffer or image has returned was    *)
(* handed the result the resource holds now, so all consumers of one       *)
(* resource, attached before or after it settled, were handed the same     *)
(* value or the same error; the decoder of an image ran at most once and   *)
(* awaiting causes no SourceFetcher call.                                  *)
(***************************************************************************)
StateOf(on, index) ==
    IF on = "buffer" THEN bufState[index] ELSE imgState[index]

C8_IdempotentResolution ==
    pc = "done" =>
        /\ \A c \in Consumers :
              (consumers[c] # Idle /\ Settled(consumers[c].seen))
              => consumers[c].seen = StateOf(consumers[c].on, consumers[c].index)
        /\ \A c1, c2 \in Consumers :
              (/\ consumers[c1] # Idle
               /\ consumers[c1].on = consumers[c2].on
               /\ consumers[c1].index = consumers[c2].index
               /\ Settled(consumers[c1].seen)
               /\ Settled(consumers[c2].seen))
              => consumers[c1].seen = consumers[c2].seen
        /\ \A j \in 1..Len(images) : Len(decoded[j]) <= 1
        /\ Len(calls) = Len(buffers)
              + Count({j \in 1..Len(images) : images[j].ty = "Owned"})

\* two consumers of one image, one attached before it settled and one
\* after, have both been handed its result
C8_Witness ==
    \E c1, c2 \in Consumers :
        /\ consumers[c1].on = "image"
        /\ consumers[c2].on = "image"
        /\ consumers[c1].index = consumers[c2].index
        /\ consumers[c1].waited
        /\ ~consumers[c2].waited
        /\ consumers[c1].seen.kind \in {"Ok", "Err"}
        /\ consumers[c2].seen = consumers[c1].seen

(***************************************************************************)
(* C9: an image whose mime type is neither "image/jpeg" nor "image/png",   *)
(* in a document that is sound otherwise, does not crash the import.       *)
(***************************************************************************)
SoundBut(doc) ==
    /\ \A i \in 1..Len(doc.buffers) : doc.buffers[i].uri # NoUri
    /\ \A k \in 1..Len(doc.buffer_views) :
          doc.buffer_views[k].buffer < Len(doc.buffers)
    /\ \A j \in 1..Len(doc.images) :
          /\ (doc.images[j].uri = NoUri) # (doc.images[j].buffer_view = NoView)
          /\ doc.images[j].buffer_view < Len(doc.buffer_views)

C9_UnsupportedMimeIsAnError ==
    (/\ json # None
     /\ SoundBut(json)
     /\ \E j \in 1..Len(json.images) :
           json.images[j].mime_type \notin {NoMime, Jpeg, Png})
    => pc # "panicked"

(***************************************************************************)
(* C10: under Skip, validate succeeds for every document, runs no          *)
(* validation routine and passes the document on unchanged.                *)
(***************************************************************************)
C10_SkipAlwaysSucceeds ==
    (/\ config = "Skip"
     /\ from_reader(data).kind = "Ok"
     /\ pc \notin {"parse", "validate"})
    => /\ pc # "failed"
       /\ result.kind # "Err"
       /\ ran = <<>>
       /\ json = from_reader(data).value

\* Skip has passed on a document with an index out of range
C10_Witness ==
    /\ config = "Skip"
    /\ pc = "buffers"
    /\ json # None
    /\ \E k \in 1..Len(validate_minimally(json)) :
          validate_minimally(json)[k].kind = "IndexOutOfBounds"

(***************************************************************************)
(* C11 (the import future alone): under Minimal and under Complete,        *)
(* validate succeeds, with the document unchanged, if and only if the      *)
(* validation routine reported no error; otherwise it fails with           *)
(* Validation carrying every reported (path, kind) pair in the order       *)
(* reported, however many there are.                                       *)
(***************************************************************************)
C11_ValidationResult ==
    (/\ config \in {"Minimal", "Complete"}
     /\ from_reader(data).kind = "Ok"
     /\ pc \notin {"parse", "validate"})
    => LET doc == from_reader(data).value
           errs == Reported(config, doc)
       IN  /\ ran = <<IF config = "Minimal" THEN "validate_minimally"
                                            ELSE "validate_completely">>
           /\ errs = <<>> <=> pc # "failed"
           /\ errs = <<>> => json = doc /\ result.kind # "Err"
           /\ errs # <<>> =>
                 /\ result = Err(Validation(errs))
                 /\ Len(result.error.errs) = Len(errs)
                 /\ \A k \in 1..Len(errs) : result.error.errs[k] = errs[k]

\* an import failed with two reports or more, those of two descriptors
C11_Witness ==
    /\ pc = "failed"
    /\ config \in {"Minimal", "Complete"}
    /\ result.kind = "Err"
    /\ result.error.kind = "Validation"
    /\ Len(result.error.errs) >= 2
    /\ \E k \in 2..Len(result.error.errs) :
          result.error.errs[k].path.index > result.error.errs[1].path.index

(***************************************************************************)
(* C12 (the import future alone): whenever import produces a Gltf, it      *)
(* carries the document, as many buffer resources as the document has      *)
(* buffers and as many image resources as it has images, and the i-th      *)
(* resource is the one built from the i-th descriptor: buffer i is the     *)
(* fetch of buffers[i].uri; image i is the fetch of images[i].uri decoded  *)
(* with images[i]'s format, or the range of images[i]'s bufferView in that *)
(* bufferView's buffer.                                                    *)
(***************************************************************************)
C12_IndexAlignment ==
    Delivered =>
        LET gltf == result.value
            doc == gltf.root
        IN  /\ doc = from_reader(data).value
            /\ Len(gltf.buffers) = Len(doc.buffers)
            /\ Len(gltf.images) = Len(doc.images)
            /\ \A i \in 1..Len(doc.buffers) :
                  calls[gltf.buffers[i].call] = doc.buffers[i].uri
            /\ \A j \in 1..Len(doc.images) :
                  /\ gltf.images[j].format = Format(doc.images[j])
                  /\ IF doc.images[j].uri # NoUri
                     THEN /\ gltf.images[j].ty = "Owned"
                          /\ calls[gltf.images[j].call] = doc.images[j].uri
                     ELSE LET view == doc.buffer_views[doc.images[j].buffer_view + 1]
                          IN  /\ gltf.images[j].ty = "Borrowed"
                              /\ gltf.images[j].buffer_index = view.buffer
                              /\ gltf.images[j].offset = view.byte_offset
                              /\ gltf.images[j].len = view.byte_length

\* a Gltf of two buffers with different URIs and two images of different
\* kinds, the embedded one in the second buffer
C12_Witness ==
    /\ Delivered
    /\ Len(result.value.buffers) = 2
    /\ json.buffers[1].uri # json.buffers[2].uri
    /\ Len(result.value.images) = 2
    /\ result.value.images[1].ty = "Owned"
    /\ result.value.images[2].ty = "Borrowed"
    /\ result.value.images[2].buffer_index = 1

(***************************************************************************)
(* C13 (documents of SiblingDocuments): the decoder of an embedded image   *)
(* is not invoked before the fetch of the buffer it references has         *)
(* resolved successfully: while that buffer is pending the image is        *)
(* pending and undecoded, a decoder call of the image implies the buffer   *)
(* resolved to bytes, and the call was made on bytes of that result.       *)
(***************************************************************************)
C13_DecodeAfterFetch ==
    Resolved =>
        \A j \in 1..Len(images) :
            images[j].ty = "Borrowed" =>
                LET b == images[j].buffer_index + 1
                IN  /\ bufState[b] = Pending =>
                          imgState[j] = Pending /\ decoded[j] = <<>>
                    /\ bufState[b].kind # "Ok" => decoded[j] = <<>>
                    /\ decoded[j] # <<>> =>
                          /\ bufState[b] = Ok(Content(json.buffers[b].uri))
                          /\ \A k \in 1..Len(decoded[j]) :
                                decoded[j][k].bytes
                                   = Slice(bufState[b].value,
                                           images[j].offset, images[j].len)

\* two embedded images of different buffers: the first was awaited first
\* and is still pending with its buffer, the second has been decoded
C13_Witness ==
    /\ pc = "done"
    /\ Len(images) = 2
    /\ images[1].ty = "Borrowed"
    /\ images[2].ty = "Borrowed"
    /\ images[1].buffer_index # images[2].buffer_index
    /\ consumers["c1"] = Awaiting("image", 1, Pending, TRUE)
    /\ imgState[1] = Pending
    /\ bufState[images[1].buffer_index + 1] = Pending
    /\ consumers["c2"].on = "image"
    /\ consumers["c2"].index = 2
    /\ consumers["c2"].waited
    /\ Settled(imgState[2])
    /\ decoded[2] # <<>>

(***************************************************************************)
(* C14 (documents of AwaitDocuments): from the end of stage 4 on, in every *)
(* state, whatever has been fetched, has failed, was decoded or was        *)
(* awaited since, the SourceFetcher calls made are those stage 3 and stage *)
(* 4 made for the input document: one per buffer, in order, then one per   *)
(* image with a URI, in order; so their number is that of the buffers plus *)
(* that of the external images and no call is ever added.                  *)
(***************************************************************************)
UrisOf(descriptors) ==
    LET carrying == SelectSeq(descriptors, LAMBDA entry : entry.uri # NoUri)
    IN  [k \in 1..Len(carrying) |-> carrying[k].uri]

C14_NoRetries ==
    Resolved =>
        LET doc == from_reader(data).value
        IN  /\ calls = UrisOf(doc.buffers) \o UrisOf(doc.images)
            /\ Len(calls) = Len(doc.buffers)
                  + Count({j \in 1..Len(doc.images) : doc.images[j].uri # NoUri})

\* a buffer's fetch has failed, and an image embedded in that buffer was
\* awaited afterwards and resolved to the dependency failure
C14_Witness ==
    /\ pc = "done"
    /\ \E b \in 1..Len(buffers), c1, c2 \in Consumers :
          /\ bufState[b].kind = "Err"
          /\ consumers[c1] = Awaiting("buffer", b, bufState[b], TRUE)
          /\ consumers[c2].on = "image"
          /\ consumers[c2].index \in EmbeddedOn(b)
          /\ ~consumers[c2].waited
          /\ consumers[c2].seen = Err(LazyLoading(bufState[b].error))
          /\ Len(calls) = Len(buffers)

(***************************************************************************)
(* C15 (documents of AwaitDocuments): an external (URI) image fails with   *)
(* its own fetch's failure, as the SourceFetcher gave it and with the      *)
(* decoder never invoked, exactly when its fetch failed; it fails with     *)
(* Decode exactly when its fetch succeeded (the decoder was invoked, once, *)
(* on the fetched bytes) and the codec rejected them; it never fails with  *)
(* LazyLoading or otherwise.                                               *)
(***************************************************************************)
Rejects(call) ==
    IF call.format = NoFormat
    THEN load_from_memory(call.bytes).kind = "Err"
    ELSE load_from_memory_with_format(call.bytes, call.format).kind = "Err"

C15_ExternalImageErrors ==
    Resolved =>
        \A j \in 1..Len(images) :
            json.images[j].uri # NoUri =>
                LET uri == json.images[j].uri
                IN  /\ imgState[j].kind \in {"Pending", "Ok", "Err"}
                    /\ imgState[j].kind = "Err" =>
                          imgState[j].error \in {FetchFailure(uri), Decode}
                    /\ imgState[j] = Err(FetchFailure(uri))
                          <=> (Settled(imgState[j]) /\ decoded[j] = <<>>)
                    /\ decoded[j] # <<>> =>
                          decoded[j] = <<[bytes |-> Content(uri),
                                          format |-> Format(json.images[j])]>>
                    /\ imgState[j] = Err(Decode)
                          <=> (decoded[j] # <<>> /\ Rejects(decoded[j][1]))
                    /\ imgState[j].kind = "Ok"
                          <=> (decoded[j] # <<>> /\ ~Rejects(decoded[j][1]))

\* two external images have failed, one with its fetch's failure and one
\* with Decode
C15_Witness ==
    /\ pc = "done"
    /\ \E j1, j2 \in 1..Len(images) :
          /\ images[j1].ty = "Owned"
          /\ images[j2].ty = "Owned"
          /\ imgState[j1] = Err(FetchFailure(json.images[j1].uri))
          /\ decoded[j1] = <<>>
          /\ imgState[j2] = Err(Decode)
          /\ Len(decoded[j2]) = 1
          /\ SeenImage(j1) # {} /\ SeenImage(j2) # {}

(***************************************************************************)
(* C16 (documents of SiblingDocuments): when the decode of an embedded     *)
(* image has failed, the buffer it reads holds its bytes and every         *)
(* consumer of the buffer was handed them; every other image of that       *)
(* buffer that has resolved was decoded once, on its own range, and holds  *)
(* what the codec made of that range; and the import result is the Gltf.   *)
(***************************************************************************)
C16_DecodeFailureIsLocal ==
    Resolved =>
        \A j \in 1..Len(images) :
            (images[j].ty = "Borrowed" /\ imgState[j] = Err(Decode)) =>
                LET b == images[j].buffer_index + 1
                    bytes == Content(json.buffers[b].uri)
                IN  /\ bufState[b] = Ok(bytes)
                    /\ \A c \in Consumers :
                          (/\ consumers[c].on = "buffer"
                           /\ consumers[c].index = b
                           /\ Settled(consumers[c].seen))
                          => consumers[c].seen = Ok(bytes)
                    /\ \A j2 \in EmbeddedOn(b) \ {j} :
                          Settled(imgState[j2]) =>
                             LET own == Slice(bytes, images[j2].offset,
                                              images[j2].len)
                             IN  /\ decoded[j2]
                                       = <<[bytes |-> own,
                                            format |-> images[j2].format]>>
                                 /\ imgState[j2]
                                       = load_from_memory_with_format(
                                            own, images[j2].format)
                    /\ result = Ok(Gltf(json, buffers, images))

\* of two images of one buffer, the one awaited first failed to decode and
\* the other, awaited afterwards, resolved to pixels
C16_Witness ==
    /\ pc = "done"
    /\ \E b \in 1..Len(buffers), j, j2 \in 1..Len(images) :
          /\ j # j2
          /\ j \in EmbeddedOn(b) /\ j2 \in EmbeddedOn(b)
          /\ imgState[j] = Err(Decode)
          /\ imgState[j2].kind = "Ok"
          /\ \E c \in SeenImage(j) : consumers[c].waited
          /\ \E c2 \in SeenImage(j2) : ~consumers[c2].waited

(***************************************************************************)
(* C17 (documents of ViewDocuments): for an embedded image whose           *)
(* bufferView has byteOffset + byteLength greater than the length of the   *)
(* bytes its buffer resolves to, the decoder is never invoked (not on      *)
(* bytes outside the buffer, not on a shortened range), the image never    *)
(* resolves to pixel data and no consumer is handed any; once the buffer   *)
(* has resolved to its bytes, a poll of the image ends in the panic of the *)
(* slice.                                                                  *)
(***************************************************************************)
C17_SliceBounds ==
    Resolved =>
        \A j \in 1..Len(images) :
            images[j].ty = "Borrowed" =>
                LET b == images[j].buffer_index + 1
                    view == ViewOfImage(j)
                IN  view.byte_offset + view.byte_length
                        > Len(Content(json.buffers[b].uri))
                    => /\ decoded[j] = <<>>
                       /\ imgState[j].kind # "Ok"
                       /\ \A c \in SeenImage(j) : consumers[c].seen.kind # "Ok"
                       /\ (Settled(imgState[j]) /\ bufState[b].kind = "Ok")
                             => imgState[j] = Poisoned

\* a range that starts inside the resolved buffer, on the signature of the
\* image's format, and ends outside it: the await of the image panicked
C17_Witness ==
    /\ pc = "done"
    /\ \E j \in 1..Len(images) :
          LET b == images[j].buffer_index + 1
          IN  /\ images[j].ty = "Borrowed"
              /\ images[j].format # NoFormat
              /\ bufState[b].kind = "Ok"
              /\ images[j].offset < Len(bufState[b].value)
              /\ images[j].offset + images[j].len > Len(bufState[b].value)
              /\ bufState[b].value[images[j].offset + 1]
                    = Signature(images[j].format)
              /\ imgState[j] = Poisoned
              /\ SeenImage(j) # {}
              /\ decoded[j] = <<>>

(***************************************************************************)
(* C18 (documents of AwaitDocuments): an image descriptor that carries     *)
(* both a URI and a bufferView passes validation under Skip only, and      *)
(* source_images resolves it as an external image: its resource is the     *)
(* fetch of its URI (a SourceFetcher call was made with it), decoded on    *)
(* the fetched bytes; its bufferView is never read (stage 4 does not panic *)
(* on it even when it points to no buffer), it is attached to no buffer    *)
(* (when only such images have been awaited, no buffer has been polled),   *)
(* and it never fails with a buffer's failure.                             *)
(***************************************************************************)
CarriesBoth(entry) == entry.uri # NoUri /\ entry.buffer_view # NoView

C18_UriPrecedence ==
    /\ Resolved =>
          \A j \in 1..Len(images) :
              CarriesBoth(json.images[j]) =>
                  LET uri == json.images[j].uri
                  IN  /\ config = "Skip"
                      /\ images[j].ty = "Owned"
                      /\ calls[images[j].call] = uri
                      /\ \A b \in 1..Len(buffers) : j \notin EmbeddedOn(b)
                      /\ \A k \in 1..Len(decoded[j]) :
                            decoded[j][k].bytes = Content(uri)
                      /\ imgState[j].kind = "Err" =>
                            imgState[j].error \in {FetchFailure(uri), Decode}
    /\ (/\ Resolved
        /\ \A c \in Consumers :
              \/ consumers[c] = Idle
              \/ /\ consumers[c].on = "image"
                 /\ CarriesBoth(json.images[consumers[c].index]))
       => \A b \in 1..Len(buffers) : bufState[b] = Pending
    /\ (/\ json # None
        /\ \A i \in 1..Len(json.buffers) : json.buffers[i].uri # NoUri
        /\ \A j \in 1..Len(json.images) :
              /\ json.images[j].uri # NoUri
              /\ json.images[j].mime_type \in {NoMime, Jpeg, Png})
       => pc # "panicked"

\* the buffer the bufferView of such an image points to has failed, and the
\* image, awaited afterwards, was decoded on the bytes of its URI
C18_Witness ==
    /\ pc = "done"
    /\ \E j \in 1..Len(images), c1, c2 \in Consumers :
          LET b == ViewOfImage(j).buffer + 1
          IN  /\ CarriesBoth(json.images[j])
              /\ b \in 1..Len(buffers)
              /\ bufState[b].kind = "Err"
              /\ consumers[c1] = Awaiting("buffer", b, bufState[b], TRUE)
              /\ consumers[c2].on = "image"
              /\ consumers[c2].index = j
              /\ Settled(consumers[c2].seen)
              /\ decoded[j] = <<[bytes |-> Content(json.images[j].uri),
                                 format |-> Format(json.images[j])]>>

(***************************************************************************)
(* C19 (the import future alone): under every strategy, whenever stage 4   *)
(* has ended and whenever import has produced a Gltf, every buffer         *)
(* descriptor of the document has a URI, every image descriptor has a URI  *)
(* or a bufferView, every mime type present is "image/jpeg" or             *)
(* "image/png", and every image without a URI points to a bufferView that  *)
(* exists and whose buffer exists; so a document violating any of these    *)
(* yields no Gltf. Stages 3 to 5 yield no Error value: an import fails     *)
(* with MalformedJson or Validation only, before any SourceFetcher call,   *)
(* and an import that stopped in stage 3 or 4 has no result.               *)
(***************************************************************************)
WellFormed(doc) ==
    /\ \A i \in 1..Len(doc.buffers) : doc.buffers[i].uri # NoUri
    /\ \A j \in 1..Len(doc.images) :
          LET entry == doc.images[j]
          IN  /\ entry.uri # NoUri \/ entry.buffer_view # NoView
              /\ entry.mime_type \in {NoMime, Jpeg, Png}
              /\ entry.uri = NoUri =>
                    /\ entry.buffer_view < Len(doc.buffer_views)
                    /\ doc.buffer_views[entry.buffer_view + 1].buffer
                          < Len(doc.buffers)

C19_WellFormedReferences ==
    /\ Resolved => WellFormed(json)
    /\ Delivered => pc = "done" /\ WellFormed(result.value.root)
    /\ (from_reader(data).kind = "Ok" /\ ~WellFormed(from_reader(data).value))
       => ~Delivered /\ ~Resolved
    /\ pc \in {"buffers", "images", "assemble", "panicked"} => result = None
    /\ result.kind = "Err" =>
          /\ pc = "failed"
          /\ result.error.kind \in {"MalformedJson", "Validation"}
          /\ calls = <<>>

\* under Skip, stage 4 stopped on a descriptor after SourceFetcher calls
\* were made for the descriptors before it
C19_Witness ==
    /\ config = "Skip"
    /\ pc = "panicked"
    /\ ~WellFormed(json)
    /\ \A i \in 1..Len(json.buffers) : json.buffers[i].uri # NoUri
    /\ Len(calls) > Len(json.buffers)
    /\ result = None

(***************************************************************************)
(* C20 (documents of LiveDocuments, SourceFetcher settling every call):    *)
(* for a Gltf of a document whose embedded images all have a recognised    *)
(* mime type and a byte range inside their buffer, a consumer that awaits  *)
(* a buffer or an image is eventually handed a value or an error.          *)
(***************************************************************************)
RangesInside(doc) ==
    \A j \in 1..Len(doc.images) :
        (doc.images[j].uri = NoUri) =>
            LET view == doc.buffer_views[doc.images[j].buffer_view + 1]
            IN  /\ doc.images[j].mime_type \in {Jpeg, Png}
                /\ view.byte_offset + view.byte_length
                      <= Len(Content(doc.buffers[view.buffer + 1].uri))

C20_EventualSettlement ==
    \A c \in Consumers :
        (/\ pc = "done"
         /\ RangesInside(json)
         /\ consumers[c] # Idle)
        ~> (consumers[c].seen.kind \in {"Ok", "Err"})

\* a consumer that found an embedded image not ready was handed its pixels
C20_Witness ==
    /\ pc = "done"
    /\ RangesInside(json)
    /\ \E c \in Consumers :
          /\ consumers[c].on = "image"
          /\ images[consumers[c].index].ty = "Borrowed"
          /\ consumers[c].waited
          /\ consumers[c].seen.kind = "Ok"

====
